---- MODULE Spec2Model ----
(***************************************************************************)
(* A model of the bounddel front end: the layer store, the upload          *)
(* handlers, the region (bounding box) list, boundary generation and the   *)
(* /api/delineate proxy route.                                             *)
(*                                                                         *)
(* The repository holds two revisions of the page component:               *)
(*   - src/unnamed/part_002 (with src/unnamed/part_003 as its sidebar):    *)
(*     regions are drawn on the map and generation walks the pending       *)
(*     regions.  Its behaviours are the specification  Spec.               *)
(*   - src/frontend/app/page.tsx (with components/Sidebar/Sidebar.tsx):    *)
(*     generation runs against one selected raster layer.  Its behaviours  *)
(*     are the specification  SpecPage.                                    *)
(* Both share the layer store operations and the proxy route.              *)
(***************************************************************************)
EXTENDS Integers, Sequences, FiniteSets, Bags, TLC

VARIABLES
    now,            \* the value Date.now() returns (milliseconds)
    layers,         \* useState<Layer[]>: the ordered layer store
    boundingBoxes,  \* useState<BoundingBox[]>: the region list (part_002)
    isGenerating,   \* useState(false)
    runs,           \* the invocations of handleGenerateBoundaries suspended at their await
    alert,          \* the message of the alert() the last step raised, "" if it raised none
    drawingMode,    \* useState<DrawingMode>('none') (part_002)
    started,        \* how many times generation was invoked on the region-drawing page
    sidebar,        \* the Sidebar component's state and the browser's localStorage
    mapView,        \* the Map component: what it last rendered, prevVisRef, the viewport
    picker          \* the file input: the files chosen, the loop's position, the reads pending

vars ==
    <<now, layers, boundingBoxes, isGenerating, runs, alert, drawingMode, started, sidebar,
      mapView, picker>>

----------------------------------------------------------------------------
(* Bounds of the model *)

MaxTime == 1        \* Date.now() takes the values 0..MaxTime
MaxLayers == 2      \* layers are added only while the store holds fewer than this many
MaxBoxes == 2       \* regions drawn at most
MaxRuns == 2        \* invocations of generation in flight at most
MaxInvocations == 2 \* invocations of generation on the region-drawing page at most

----------------------------------------------------------------------------
(* Optional values: x?: T is a sequence of length 0 (undefined) or 1 *)

None == <<>>
Some(x) == <<x>>
IsSome(o) == Len(o) = 1
Get(o) == o[1]

Min2(a, b) == IF a <= b THEN a ELSE b
Max2(a, b) == IF a >= b THEN a ELSE b

SetMin(S) == CHOOSE x \in S : \A y \in S : x <= y
SetMax(S) == CHOOSE x \in S : \A y \in S : x >= y

\* Array.prototype.find: the element at the first of the matching positions,
\* as an optional value
Find(s, matching) == IF matching = {} THEN None ELSE Some(s[SetMin(matching)])

----------------------------------------------------------------------------
(* Geographic bounds [[south, west], [north, east]] *)

South(b) == b[1][1]
West(b)  == b[1][2]
North(b) == b[2][1]
East(b)  == b[2][2]

\* The ranges and the ordering tested before a raster's bounds are submitted
InRange(b) ==
    ~ (South(b) < -90 \/ South(b) > 90 \/ North(b) < -90 \/ North(b) > 90
       \/ West(b) < -180 \/ West(b) > 180 \/ East(b) < -180 \/ East(b) > 180)

Ordered(b) == ~ (South(b) >= North(b) \/ West(b) >= East(b))

\* validateBBox of lib/delineateAnything (not among the sources): the region
\* invariant of the data model, south < north, west < east, latitudes in
\* [-90, 90], longitudes in [-180, 180]
validateBBox(b) ==
    IF South(b) < North(b) /\ West(b) < East(b)
       /\ South(b) >= -90 /\ North(b) <= 90 /\ West(b) >= -180 /\ East(b) <= 180
    THEN [valid |-> TRUE, error |-> ""]
    ELSE [valid |-> FALSE, error |-> "Invalid bounding box"]

----------------------------------------------------------------------------
(* Uploaded files.  A file name is the sequence of its dot-separated          *)
(* segments: fields.geojson is <<"fields", "geojson">>.                       *)

Pt(x, y) == <<x, y>>

\* a GeoJSON feature: its properties and the positions of its geometry
Feature(name, id, pts) == [properties |-> [name |-> name, id |-> id], pts |-> pts]

NoJson == [type |-> "", features |-> None, properties |-> [name |-> "", id |-> ""], pts |-> {}]

File(name, parses, bbox, epsg, bands, isFloat, tables, json) ==
    [name |-> name, parses |-> parses, bbox |-> bbox, epsg |-> epsg,
     width |-> IF Len(bands) > 0 THEN Len(bands[1]) ELSE 1,
     height |-> 1, bands |-> bands, isFloat |-> isFloat, tables |-> tables, json |-> json]

FieldA == Feature("north field", "", {Pt(20, 10), Pt(22, 10), Pt(22, 12), Pt(20, 12)})
FieldB == Feature("", "", {Pt(23, 13), Pt(25, 15)})

SceneTif == File(<<"scene", "tif">>, TRUE, <<20, 10, 25, 15>>, 4326, <<<<128>>>>, FALSE, <<>>, NoJson)
UtmTif == File(<<"utm", "TIF">>, TRUE, <<200, 100, 250, 150>>, 32633, <<<<128>>>>, FALSE, <<>>, NoJson)
MercTiff == File(<<"merc", "tiff">>, TRUE, <<2000, 1000, 2500, 1500>>, 3857, <<<<128>>>>, FALSE, <<>>, NoJson)
BrokenTif == File(<<"broken", "tif">>, FALSE, <<0, 0, 0, 0>>, 0, <<>>, FALSE, <<>>, NoJson)
FieldsGeojson ==
    File(<<"fields", "geojson">>, TRUE, <<0, 0, 0, 0>>, 0, <<>>, FALSE, <<>>,
         [type |-> "FeatureCollection", features |-> Some(<<FieldA, FieldB>>),
          properties |-> [name |-> "", id |-> ""], pts |-> {}])
OtherJson ==
    File(<<"notes", "json">>, TRUE, <<0, 0, 0, 0>>, 0, <<>>, FALSE, <<>>,
         [type |-> "Topology", features |-> None, properties |-> [name |-> "", id |-> ""], pts |-> {}])
DataGpkg ==
    File(<<"data", "gpkg">>, TRUE, <<0, 0, 0, 0>>, 0, <<>>, FALSE,
         << [table |-> "roads", features |-> <<FieldA>>],
            [table |-> "empty", features |-> <<>>],
            [table |-> "parcels", features |-> <<FieldB>>] >>, NoJson)
EmptyGpkg ==
    File(<<"none", "gpkg">>, TRUE, <<0, 0, 0, 0>>, 0, <<>>, FALSE,
         << [table |-> "empty", features |-> <<>>] >>, NoJson)

\* a GeoPackage with an empty table before a table of two rows
PlotsGpkg ==
    File(<<"plots", "gpkg">>, TRUE, <<0, 0, 0, 0>>, 0, <<>>, FALSE,
         << [table |-> "fallow", features |-> <<>>],
            [table |-> "plots", features |-> <<FieldA, FieldB>>] >>, NoJson)

\* a raster without CRS keys
NoCrsTif == File(<<"plain", "tif">>, TRUE, <<20, 10, 25, 15>>, 0, <<<<128>>>>, FALSE, <<>>, NoJson)
\* two pixels, three integer bands, samples beyond both ends of 0..255
RgbTif ==
    File(<<"rgb", "tif">>, TRUE, <<20, 10, 25, 15>>, 4326, <<<<10, 300>>, <<20, 0>>, <<30, -5>>>>,
         FALSE, <<>>, NoJson)
\* two integer bands
TwoBandTif ==
    File(<<"pair", "tif">>, TRUE, <<20, 10, 25, 15>>, 4326, <<<<10>>, <<20>>>>, FALSE, <<>>, NoJson)
\* three pixels, one floating-point band: 0.5, 1.5 and -0.2 in thousandths
FloatTif ==
    File(<<"ndvi", "tif">>, TRUE, <<20, 10, 25, 15>>, 4326, <<<<500, 1500, -200>>>>, TRUE, <<>>,
         NoJson)
\* a single GeoJSON Feature, in a file whose name holds two dots
SingleFeatureJson ==
    File(<<"farm", "v2", "geojson">>, TRUE, <<0, 0, 0, 0>>, 0, <<>>, FALSE, <<>>,
         [type |-> "Feature", features |-> None, properties |-> [name |-> "", id |-> "f7"],
          pts |-> {Pt(30, -5), Pt(31, -4)}])
\* a FeatureCollection with no features
EmptyCollectionJson ==
    File(<<"nothing", "geojson">>, TRUE, <<0, 0, 0, 0>>, 0, <<>>, FALSE, <<>>,
         [type |-> "FeatureCollection", features |-> Some(<<>>),
          properties |-> [name |-> "", id |-> ""], pts |-> {}])
\* tagged FeatureCollection, but without a features member
NoFeaturesListJson ==
    File(<<"tagged", "json">>, TRUE, <<0, 0, 0, 0>>, 0, <<>>, FALSE, <<>>,
         [type |-> "FeatureCollection", features |-> None,
          properties |-> [name |-> "", id |-> ""], pts |-> {}])
\* text JSON.parse throws on
BadJson == File(<<"broken", "json">>, FALSE, <<0, 0, 0, 0>>, 0, <<>>, FALSE, <<>>, NoJson)
\* a GeoPackage GeoPackageAPI.open throws on
BrokenGpkg == File(<<"corrupt", "gpkg">>, FALSE, <<0, 0, 0, 0>>, 0, <<>>, FALSE, <<>>, NoJson)

\* the files a user of the region-drawing page uploads
RegionFiles == {SceneTif, UtmTif, OtherJson}
\* the files a user of the layer-selecting page uploads
PageFiles == {SceneTif, UtmTif, FieldsGeojson, DataGpkg, OtherJson}
\* the files the upload handler is tried on
UploadFiles ==
    {SceneTif, UtmTif, MercTiff, BrokenTif, NoCrsTif, RgbTif, TwoBandTif, FloatTif,
     FieldsGeojson, SingleFeatureJson, EmptyCollectionJson, NoFeaturesListJson, OtherJson,
     BadJson, DataGpkg, EmptyGpkg, BrokenGpkg, PlotsGpkg}

\* String.prototype.toLowerCase on the extensions in use
toLowerCase(seg) ==
    CASE seg = "TIF" -> "tif"
      [] seg = "TIFF" -> "tiff"
      [] seg = "GPKG" -> "gpkg"
      [] OTHER -> seg

\* name.endsWith('.' + ext)
endsWith(name, ext) == Len(name) >= 2 /\ name[Len(name)] = ext

\* file.name.replace(/\.[^/.]+$/, ''): drops the last dot and what follows it
StripExtension(name) ==
    IF Len(name) >= 2 /\ name[Len(name)] # "" THEN SubSeq(name, 1, Len(name) - 1) ELSE name

\* bbox(feature) of @turf/bbox: [minX, minY, maxX, maxY] over the positions
bbox(feature) ==
    << SetMin({p[1] : p \in feature.pts}), SetMin({p[2] : p \in feature.pts}),
       SetMax({p[1] : p \in feature.pts}), SetMax({p[2] : p \in feature.pts}) >>

\* the slip of keeping [minX, minY, maxX, maxY] order: [[box[0], box[1]], [box[2], box[3]]]
SwapToLatLng_Unswapped(box) == << <<box[1], box[2]>>, <<box[3], box[4]>> >>

\* [[box[1], box[0]], [box[3], box[2]]] (JavaScript indices)
SwapToLatLng(box) == << <<box[2], box[1]>>, <<box[4], box[3]>> >>

\* text (a sequence of pieces) followed by a number, as in `Feature ${idx + 1}`;
\* n = -1 when no number follows
Label(text, n) == [text |-> text, n |-> n]

\* feature.properties?.name || feature.properties?.id || `${fallback} ${idx + 1}`
FeatureName(feature, fallback, idx) ==
    IF feature.properties.name # "" THEN Label(<<feature.properties.name>>, -1)
    ELSE IF feature.properties.id # "" THEN Label(<<feature.properties.id>>, -1)
    ELSE Label(<<fallback>>, idx + 1)

\* features.map((feature, idx) => ({ id, name, bounds })), idx counted from 0
FeatureMetadata(features, idPrefix, fallback) ==
    [i \in 1..Len(features) |->
        [id |-> Label(idPrefix, i - 1),
         name |-> FeatureName(features[i], fallback, i - 1),
         bounds |-> SwapToLatLng(bbox(features[i]))]]

----------------------------------------------------------------------------
(* Layers *)

LayerId(prefix, table, t) == [prefix |-> prefix, table |-> table, t |-> t]

Description(kind, n, detail) == [kind |-> kind, n |-> n, detail |-> detail]

Layer(id, name, type, data, color, description, features, rasterUrl, rasterBounds) ==
    [id |-> id, name |-> name, type |-> type, data |-> data, visible |-> TRUE,
     color |-> color, description |-> description, features |-> features,
     rasterUrl |-> rasterUrl, rasterBounds |-> rasterBounds]

----------------------------------------------------------------------------
(* Raster ingestion *)

\* proj4 knows EPSG:4326 and EPSG:3857 without further definitions; any other
\* code makes proj4.default(from, to, point) throw
Proj4Known(epsg) == epsg \in {4326, 3857}

\* proj4.default('EPSG:' + epsg, 'EPSG:4326', [x, y]) for a known code; the
\* inverse Mercator projection is stood in for by a division (metres to degrees)
proj4(epsg, pt) == IF epsg = 4326 THEN pt ELSE <<pt[1] \div 100, pt[2] \div 100>>

\* the slip  Math.floor(v * 255)  for  Math.round(v * 255)
RoundTimes255_Truncates(v) == (v * 255) \div 1000

\* a floating-point sample v is held in thousandths: Math.round(v * 255)
RoundTimes255(v) == (v * 255 + 500) \div 1000

Clamp255(x) == Max2(0, Min2(255, x))

\* one channel of one pixel, as stored into the Uint8ClampedArray of the canvas
Channel(v, isFloat) == IF isFloat THEN Clamp255(RoundTimes255(v)) ELSE Clamp255(v)

\* the loop over the width * height pixels: RGBA bytes, pixel after pixel
Rasterize(bands, isFloat, n) ==
    [k \in 1..(4 * n) |->
        LET i == ((k - 1) \div 4) + 1
            c == (k - 1) % 4
            r == bands[1][i]
            g == IF Len(bands) >= 2 THEN bands[2][i] ELSE r
            b == IF Len(bands) >= 3 THEN bands[3][i] ELSE r
        IN  CASE c = 0 -> Channel(r, isFloat)
              [] c = 1 -> Channel(g, isFloat)
              [] c = 2 -> Channel(b, isFloat)
              [] OTHER -> 255]

\* the slip  epsgCode !== 4326  for  epsgCode && epsgCode !== 4326
NeedsReprojection_EvenWithoutCode(file) == file.epsg # 4326

\* geoKeys?.ProjectedCSTypeGeoKey || geoKeys?.GeographicTypeGeoKey, 0 when neither is set
NeedsReprojection(file) == file.epsg # 0 /\ file.epsg # 4326

ReprojectionFails(file) == NeedsReprojection(file) /\ ~ Proj4Known(file.epsg)

\* finalBounds: the native box, or its two corners reprojected
FinalBounds(file) ==
    IF NeedsReprojection(file) /\ Proj4Known(file.epsg)
    THEN LET lo == proj4(file.epsg, <<file.bbox[1], file.bbox[2]>>)
             hi == proj4(file.epsg, <<file.bbox[3], file.bbox[4]>>)
         IN  <<lo[1], lo[2], hi[1], hi[2]>>
    ELSE file.bbox

crsDescription(file) ==
    IF NeedsReprojection(file)
    THEN Description("Raster layer", <<file.width, file.height, file.epsg>>, <<"EPSG:">>)
    ELSE Description("Raster layer", <<file.width, file.height>>, <<"EPSG:4326 (WGS84)">>)

\* canvas.toDataURL('image/png') of the rasterized pixels
RasterUrl(file) == [png |-> Rasterize(file.bands, file.isFloat, file.width * file.height)]

\* the raster layer page.tsx builds
RasterLayer(file, t) ==
    Layer(LayerId("raster", "", t), StripExtension(file.name), "raster", None, "#10b981",
          crsDescription(file), None, Some(RasterUrl(file)),
          Some(SwapToLatLng(FinalBounds(file))))

\* the raster layer the region-drawing page builds: the native box, no reprojection
Region_RasterLayer(file, t) ==
    Layer(LayerId("raster", "", t), StripExtension(file.name), "raster", None, "#10b981",
          Description("Raster layer", <<file.width, file.height>>, <<>>), None,
          Some(RasterUrl(file)), Some(SwapToLatLng(file.bbox)))

----------------------------------------------------------------------------
(* Vector ingestion *)

\* Math.random() picks the colour of a GeoPackage layer
RandomColors == {"#3fa2c1"}

TableLayer(file, t, tbl, color) ==
    Layer(LayerId("layer", tbl.table, t), <<tbl.table>>, "vector", Some(tbl.features), color,
          Description("Imported from", <<Len(tbl.features)>>, file.name \o <<tbl.table>>),
          Some(FeatureMetadata(tbl.features, <<tbl.table, "-feature-">>, "Feature")),
          None, None)

\* the slip of pushing a layer for every table, without  if (features.length > 0)
NonEmptyTables_KeepsEmpty(file) == file.tables

\* newLayers: one layer per table with features, in table order
NonEmptyTables(file) == SelectSeq(file.tables, LAMBDA tbl : Len(tbl.features) > 0)

GeoPackageLayers(file, t, color) ==
    [i \in 1..Len(NonEmptyTables(file)) |-> TableLayer(file, t, NonEmptyTables(file)[i], color)]

\* data: the collection itself, or the single feature wrapped into one
\* the slip  (json.features || [])  for  json.features
JsonFeatures_DefaultsToEmpty(json) ==
    IF json.type = "Feature"
    THEN Some(<<[properties |-> json.properties, pts |-> json.pts]>>)
    ELSE IF IsSome(json.features) THEN json.features ELSE Some(<<>>)

JsonFeatures(json) ==
    IF json.type = "Feature"
    THEN Some(<<[properties |-> json.properties, pts |-> json.pts]>>)
    ELSE json.features

GeoJsonLayer(file, t) ==
    LET features == Get(JsonFeatures(file.json))
    IN  Layer(LayerId("layer", "", t), StripExtension(file.name), "vector", Some(features),
              "#a855f7", Description("User uploaded layer", <<Len(features)>>, <<>>),
              Some(FeatureMetadata(features, <<"geojson-feature-">>, "Feature")), None, None)

----------------------------------------------------------------------------
(* The layer store: the state updates of the handlers, as functions of the    *)
(* previous sequence                                                          *)

\* the slip  visible: false  for  visible: !l.visible
ToggleLayer_AlwaysHides(prev, id) ==
    [i \in 1..Len(prev) |-> IF prev[i].id = id THEN [prev[i] EXCEPT !.visible = FALSE] ELSE prev[i]]

\* prev.map(l => l.id === id ? { ...l, visible: !l.visible } : l)
ToggleLayer(prev, id) ==
    [i \in 1..Len(prev) |-> IF prev[i].id = id THEN [prev[i] EXCEPT !.visible = ~ @] ELSE prev[i]]

\* the slip  l.id === id  for  l.id !== id
RemoveLayer_KeepsOnlyId(prev, id) == SelectSeq(prev, LAMBDA l : l.id = id)

\* prev.filter(l => l.id !== id)
RemoveLayer(prev, id) == SelectSeq(prev, LAMBDA l : l.id # id)

\* the slip  [...prev, ...newLayers]
Prepend_Appends(newLayers, prev) == prev \o newLayers

\* [...newLayers, ...prev]
Prepend(newLayers, prev) == newLayers \o prev

\* the slip  items.splice(index + 1, 1)
SpliceOut_OffByOne(items, index) ==
    SubSeq(items, 1, index + 1) \o SubSeq(items, index + 3, Len(items))

\* items.splice(index, 1) on a copy: the array without the element at index (from 0)
SpliceOut(items, index) ==
    SubSeq(items, 1, index) \o SubSeq(items, index + 2, Len(items))

\* items.splice(index, 0, item): item inserted so that it sits at index (from 0)
SpliceIn(items, index, item) ==
    SubSeq(items, 1, index) \o <<item>> \o SubSeq(items, index + 1, Len(items))

\* the array handleDragEnd hands to onReorderLayers
Reordered(items, source, destination) ==
    SpliceIn(SpliceOut(items, source), destination, items[source + 1])

----------------------------------------------------------------------------
(* Inputs of the handlers                                                     *)

AbsentId == LayerId("layer", "", -1)
NoDestination == -1

\* the identifiers a handler can be called with: those on display and one that is not
KnownIds == {layers[i].id : i \in 1..Len(layers)} \cup {AbsentId}

----------------------------------------------------------------------------
(* Handlers shared by both revisions of the page *)

\* time passes between two events
Tick ==
    /\ now < MaxTime
    /\ now' = now + 1
    /\ alert' = ""
    /\ UNCHANGED <<layers, boundingBoxes, isGenerating, runs, drawingMode, started, sidebar, mapView, picker>>

handleToggleLayer(id) ==
    /\ layers' = ToggleLayer(layers, id)
    /\ alert' = ""
    /\ UNCHANGED <<now, boundingBoxes, isGenerating, runs, drawingMode, started, sidebar, mapView, picker>>

handleRemoveLayer(id) ==
    /\ layers' = RemoveLayer(layers, id)
    /\ alert' = ""
    /\ UNCHANGED <<now, boundingBoxes, isGenerating, runs, drawingMode, started, sidebar, mapView, picker>>

\* handleDragEnd of the sidebar, which calls handleReorderLayers: setLayers(items)
handleDragEnd(source, destination) ==
    /\ layers' = IF destination = NoDestination THEN layers
                 ELSE Reordered(layers, source, destination)
    /\ alert' = ""
    /\ UNCHANGED <<now, boundingBoxes, isGenerating, runs, drawingMode, started, sidebar, mapView, picker>>

\* the drags the sidebar can report: a layer on display, dropped on a slot or nowhere
Drag ==
    \E source \in 0..(Len(layers) - 1) :
        \E destination \in (0..(Len(layers) - 1)) \cup {NoDestination} :
            handleDragEnd(source, destination)

----------------------------------------------------------------------------
(* handleFileUpload *)

IsTiff(file) ==
    \/ endsWith([i \in 1..Len(file.name) |-> toLowerCase(file.name[i])], "tif")
    \/ endsWith([i \in 1..Len(file.name) |-> toLowerCase(file.name[i])], "tiff")

IsGpkg(file) == endsWith(file.name, "gpkg")

\* what an upload leaves in the store and what it alerts, given the raster
\* layer the page builds of a GeoTIFF: <<layers added in front, alert>>
UploadResult(file, t, color, rasterLayer) ==
    IF IsTiff(file) THEN
        IF ~ file.parses THEN <<(<<>>), "Error loading GeoTIFF">>
        ELSE <<(<<rasterLayer>>), "">>
    ELSE IF IsGpkg(file) THEN
        IF ~ file.parses THEN <<(<<>>), "Error parsing GeoPackage file">>
        ELSE IF Len(GeoPackageLayers(file, t, color)) > 0
             THEN <<GeoPackageLayers(file, t, color), "">>
             ELSE <<(<<>>), "No features found in GeoPackage">>
    ELSE
        IF ~ file.parses THEN <<(<<>>), "Error parsing JSON file">>
        ELSE IF file.json.type = "FeatureCollection" \/ file.json.type = "Feature" THEN
            IF IsSome(JsonFeatures(file.json))
            THEN <<(<<GeoJsonLayer(file, t)>>), "">>
            ELSE <<(<<>>), "Error parsing JSON file">>
        ELSE <<(<<>>), "Invalid GeoJSON format">>

\* the slip of a catch that only logs
ReprojectionWarning_OnlyLogged(file) == ""

\* the warning raised when proj4 throws; the upload goes on
ReprojectionWarning(file) ==
    IF IsTiff(file) /\ file.parses /\ ReprojectionFails(file)
    THEN "Warning: Could not reproject coordinates" ELSE ""

Upload(file, color, rasterLayer, warning) ==
    LET result == UploadResult(file, now, color, rasterLayer)
    IN  /\ Len(layers) < MaxLayers
        /\ layers' = Prepend(result[1], layers)
        /\ alert' = (IF result[2] # "" THEN result[2] ELSE warning)
        /\ UNCHANGED <<now, boundingBoxes, isGenerating, runs, drawingMode, started, sidebar, mapView, picker>>

\* page.tsx
handleFileUpload(file) ==
    \E color \in RandomColors : Upload(file, color, RasterLayer(file, now), ReprojectionWarning(file))

\* the region-drawing page: the same but for the raster's bounds
Region_handleFileUpload(file) ==
    \E color \in RandomColors : Upload(file, color, Region_RasterLayer(file, now), "")

----------------------------------------------------------------------------
(* The file input of the sidebar: several files chosen at once               *)

\* the input before a change event
NoSelection == [selected |-> <<>>, next |-> 1, reading |-> {}]

\* the loop of handleFileChange has passed its last file and no read is pending
SelectionDone == picker.next > Len(picker.selected) /\ picker.reading = {}

\* Sidebar.tsx handleFileChange: the change event of the input with the files
\* chosen; the loop stands before files[0]
handleFileChange(files) ==
    /\ SelectionDone
    /\ Len(files) > 0
    /\ Len(layers) + Len(files) <= MaxLayers
    /\ picker' = [selected |-> files, next |-> 1, reading |-> {}]
    /\ alert' = ""
    /\ UNCHANGED <<now, layers, boundingBoxes, isGenerating, runs, drawingMode, started, sidebar,
                   mapView>>

\* one turn of the loop, await onFileUpload(files[i]): the promise of
\* handleFileUpload resolves after the layers of a GeoTIFF or a GeoPackage are
\* set, and for any other file as soon as reader.readAsText(file) is called
FileChange_Upload ==
    /\ picker.next <= Len(picker.selected)
    /\ LET file == picker.selected[picker.next]
       IN  IF IsTiff(file) \/ IsGpkg(file) THEN
               /\ \E color \in RandomColors :
                     LET result == UploadResult(file, now, color, RasterLayer(file, now))
                     IN  /\ layers' = Prepend(result[1], layers)
                         /\ alert' = (IF result[2] # "" THEN result[2]
                                      ELSE ReprojectionWarning(file))
               /\ picker' = [picker EXCEPT !.next = @ + 1]
           ELSE
               /\ picker' = [picker EXCEPT !.next = @ + 1, !.reading = @ \cup {picker.next}]
               /\ alert' = ""
               /\ UNCHANGED layers
    /\ UNCHANGED <<now, boundingBoxes, isGenerating, runs, drawingMode, started, sidebar, mapView>>

\* reader.onload of the i-th file chosen: the reads of several FileReaders
\* complete in any order
FileReader_onload(i) ==
    /\ i \in picker.reading
    /\ LET file == picker.selected[i]
       IN  \E color \in RandomColors :
              LET result == UploadResult(file, now, color, RasterLayer(file, now))
              IN  /\ layers' = Prepend(result[1], layers)
                  /\ alert' = result[2]
    /\ picker' = [picker EXCEPT !.reading = @ \ {i}]
    /\ UNCHANGED <<now, boundingBoxes, isGenerating, runs, drawingMode, started, sidebar, mapView>>


----------------------------------------------------------------------------
(* The inference endpoint and the proxy route POST /api/delineate             *)

\* the selectable models of the sidebar
Models == {"delineate-v1"}

Body(error, detail, result) == [error |-> error, detail |-> detail, result |-> result]

\* { boundaries, metadata: { fieldCount, processingTime, confidence } }; the
\* confidence is held in thousandths
InferenceResult ==
    [boundaries |-> <<FieldA, FieldB>>, fieldCount |-> 2, processingTime |-> 1200,
     confidence |-> 900]

\* an answer whose fieldCount is not the number of features it carries
SparseResult ==
    [boundaries |-> <<FieldB>>, fieldCount |-> 3, processingTime |-> 800, confidence |-> 750]

\* what the inference endpoint can answer with a non-2xx status: a JSON error
\* payload, or a body that is not JSON (the plain text of an unhandled error)
RemoteErrors ==
    { [status |-> 422, isJson |-> TRUE, payload |-> Body("", "invalid bbox", None)],
      [status |-> 500, isJson |-> FALSE, payload |-> Body("", "Internal Server Error", None)] }

TimeoutMessage == "Request timeout - processing took too long"

Response(status, body) == [status |-> status, body |-> body]

NoResponse == Response(0, Body("", "", None))

\* the route's answer when fetch resolved with a response: response.json() is
\* awaited first; a body that is not JSON makes it throw into the catch block
RouteOnResponse(status, isJson, payload) ==
    IF ~ isJson THEN Response(500, Body("Unexpected token in JSON", "", None))
    ELSE IF status < 200 \/ status > 299 THEN Response(status, payload)
    ELSE Response(200, payload)

\* the route's answer when fetch rejected: the abort of the timer, or anything else
RouteOnError(name, message) ==
    IF name = "AbortError" THEN Response(504, Body(TimeoutMessage, "", None))
    ELSE Response(500, Body(IF message # "" THEN message ELSE "Failed to process request", "", None))

\* a request of delineateFields on its way through the route: where it is,
\* whether the timer of setTimeout(() => controller.abort(), 600000) is still
\* set, how often the route has passed the request on, what happened to it at
\* the endpoint and what the route answered
Request(st, timer, forwards, kind, remote, response) ==
    [st |-> st, timer |-> timer, forwards |-> forwards, kind |-> kind, remote |-> remote,
     response |-> response]

\* POST has set the timer and awaits fetch
NewRequest == Request("sent", "set", 0, "", NoResponse, NoResponse)

NoRequest == Request("none", "none", 0, "", NoResponse, NoResponse)

\* what the loop reads of a region: boundingBox.id and boundingBox.bounds
Captured(box) == [id |-> box.id, bounds |-> box.bounds]

\* a generation suspended at  await delineateFields(...): the regions it walks,
\* the position k (from 1) of the one it waits for, how many requests it has
\* sent for that one, and the request on its way
Run(boxes, k, sends, modelId, raster, req) ==
    [boxes |-> boxes, k |-> k, sends |-> sends, modelId |-> modelId, raster |-> raster,
     req |-> req]

\* what the region-drawing page keeps of the top visible raster: its rasterUrl
ImageData(raster) == [name |-> <<>>, rasterUrl |-> raster.rasterUrl]

\* what page.tsx keeps of the selected raster: its name (the bounds are the region)
Selected(raster) == [name |-> raster.name, rasterUrl |-> None]

\* a slot no invocation occupies
FinishedRun == Run(<<>>, 0, 0, "", None, NoRequest)

FreeSlots == {r \in 1..MaxRuns : runs[r].k = 0}

Waiting(r, st) == runs[r].k > 0 /\ runs[r].req.st = st

\* a route that calls fetch a second time when the first call did not succeed
Fetches_RetryOnError(kind) == IF kind = "ok" THEN 1 ELSE 2

\* how often POST calls fetch for one request, whatever becomes of the call
Fetches(kind) == 1

\* POST as a whole: the request is passed on to the endpoint and the route
\* answers according to what became of fetch
RouteAnswers(r, kind, remote, response) ==
    /\ Waiting(r, "sent")
    /\ runs' = [runs EXCEPT ![r].req =
                    Request("answered", "cleared", @.forwards + Fetches(kind), kind, remote,
                            response)]
    /\ alert' = ""
    /\ UNCHANGED <<now, layers, boundingBoxes, isGenerating, drawingMode, started, sidebar, mapView, picker>>

\* the endpoint answers 200 with a result
POST_ok(r) ==
    RouteAnswers(r, "ok", Response(200, Body("", "", Some(InferenceResult))),
                 RouteOnResponse(200, TRUE, Body("", "", Some(InferenceResult))))

\* the endpoint answers 200 with the sparse payload
POST_okSparse(r) ==
    RouteAnswers(r, "ok", Response(200, Body("", "", Some(SparseResult))),
                 RouteOnResponse(200, TRUE, Body("", "", Some(SparseResult))))

\* the endpoint answers with a non-2xx status
POST_remoteError(r) ==
    \E e \in RemoteErrors :
        RouteAnswers(r, "remote", Response(e.status, e.payload),
                     RouteOnResponse(e.status, e.isJson, e.payload))

\* every answer the route can give to a request
RouteResponses ==
    {RouteOnResponse(200, TRUE, Body("", "", Some(InferenceResult)))}
    \cup {RouteOnResponse(e.status, e.isJson, e.payload) : e \in RemoteErrors}
    \cup {RouteOnError("AbortError", "This operation was aborted"), RouteOnError("TypeError", "fetch failed")}

\* the timer fires first: controller.abort() rejects fetch with an AbortError
POST_timeout(r) ==
    /\ runs[r].req.timer = "set"
    /\ RouteAnswers(r, "timeout", NoResponse, RouteOnError("AbortError", "This operation was aborted"))

\* the endpoint cannot be reached: fetch rejects with a TypeError
POST_networkError(r) ==
    RouteAnswers(r, "network", NoResponse, RouteOnError("TypeError", "fetch failed"))

\* the endpoint sends the head of a response and then no body: fetch resolves,
\* clearTimeout(timeoutId) runs, and POST awaits response.json()
POST_stalledBody(r) ==
    /\ Waiting(r, "sent")
    /\ runs' = [runs EXCEPT ![r].req =
                    Request("body", "cleared", @.forwards + Fetches("stalled"), "stalled",
                            NoResponse, NoResponse)]
    /\ alert' = ""
    /\ UNCHANGED <<now, layers, boundingBoxes, isGenerating, drawingMode, started, sidebar, mapView, picker>>

\* delineateFields of lib/delineateAnything (not among the sources): one request
\* to the route; a non-2xx answer is thrown as an Error whose message is the
\* answer's error text, the timeout keeping its own message
DelineateThrows(response) == response.status < 200 \/ response.status > 299

DelineateErrorMessage(response) ==
    IF response.body.error # "" THEN response.body.error
    ELSE IF response.body.detail # "" THEN response.body.detail
    ELSE ""

----------------------------------------------------------------------------
(* Regions (src/unnamed/part_002) *)

BoundingBox(id, bounds, status, createdAt, layerId, error, modelId) ==
    [id |-> id, bounds |-> bounds, status |-> status, createdAt |-> createdAt,
     layerId |-> layerId, error |-> error, modelId |-> modelId]

\* the rectangles a user draws: a plain one, one reaching past the antimeridian
\* (Leaflet reports longitudes beyond 180 on a wrapped map), one of no height
DrawnBounds ==
    { << <<10, 20>>, <<15, 25>> >>, << <<10, 170>>, <<15, 190>> >>, << <<10, 20>>, <<10, 25>> >> }

handleToggleDrawing ==
    /\ drawingMode' = IF drawingMode = "rectangle" THEN "none" ELSE "rectangle"
    /\ alert' = ""
    /\ UNCHANGED <<now, layers, boundingBoxes, isGenerating, runs, started, sidebar, mapView, picker>>

\* the regions drawn at time t that the page still holds or still works on
DrawnAt(t) ==
    {i \in 1..Len(boundingBoxes) : boundingBoxes[i].id.t = t}
    \cup {r \in 1..MaxRuns : \E k \in 1..Len(runs[r].boxes) :
                                 runs[r].boxes[k].id.prefix = "bbox" /\ runs[r].boxes[k].id.t = t}

\* The draw control is on the map only in rectangle mode.  Drawing a rectangle
\* takes the user longer than a millisecond: no two rectangles are finished
\* within the same one.
handleBoundingBoxCreated(bounds) ==
    /\ drawingMode = "rectangle"
    /\ DrawnAt(now) = {}
    /\ Len(boundingBoxes) < MaxBoxes
    /\ IF ~ validateBBox(bounds).valid
       THEN /\ alert' = validateBBox(bounds).error
            /\ UNCHANGED <<boundingBoxes, drawingMode, started>>
       ELSE /\ boundingBoxes' =
                Append(boundingBoxes,
                       BoundingBox(LayerId("bbox", "", now), bounds, "pending", now, None, "", ""))
            /\ drawingMode' = "none"
            /\ alert' = ""
    /\ UNCHANGED <<now, layers, isGenerating, runs, started, sidebar, mapView, picker>>

handleDeleteBoundingBox(id) ==
    /\ boundingBoxes' = SelectSeq(boundingBoxes, LAMBDA b : b.id # id)
    /\ alert' = ""
    /\ UNCHANGED <<now, layers, isGenerating, runs, drawingMode, started, sidebar, mapView, picker>>

\* prev.map(b => b.id === id ? { ...b, status: 'processing', modelId } : b)
MarkProcessing(prev, id, modelId) ==
    [i \in 1..Len(prev) |->
        IF prev[i].id = id THEN [prev[i] EXCEPT !.status = "processing", !.modelId = modelId]
        ELSE prev[i]]

\* prev.map(b => b.id === id ? { ...b, status: 'completed', layerId } : b)
MarkCompleted(prev, id, layerId) ==
    [i \in 1..Len(prev) |->
        IF prev[i].id = id THEN [prev[i] EXCEPT !.status = "completed", !.layerId = Some(layerId)]
        ELSE prev[i]]

\* the slip of a catch block that records the message and leaves the status
MarkError_KeepsStatus(prev, id, message) ==
    [i \in 1..Len(prev) |->
        IF prev[i].id = id THEN [prev[i] EXCEPT !.error = message]
        ELSE prev[i]]

\* prev.map(b => b.id === id ? { ...b, status: 'error', error } : b)
MarkError(prev, id, message) ==
    [i \in 1..Len(prev) |->
        IF prev[i].id = id THEN [prev[i] EXCEPT !.status = "error", !.error = message]
        ELSE prev[i]]

\* layers.find(l => l.type === 'raster' && l.visible)
topVisibleRaster ==
    Find(layers, {i \in 1..Len(layers) : layers[i].type = "raster" /\ layers[i].visible})

pendingBoxes == SelectSeq(boundingBoxes, LAMBDA b : b.status = "pending")

\* the pending regions, else the full extent of the top visible raster, else nothing
boxesToProcess(modelId) ==
    IF Len(pendingBoxes) > 0 THEN pendingBoxes
    ELSE IF IsSome(topVisibleRaster) /\ IsSome(Get(topVisibleRaster).rasterBounds)
         THEN << BoundingBox(LayerId("bbox-auto", "", now), Get(Get(topVisibleRaster).rasterBounds),
                             "pending", now, None, "", modelId) >>
         ELSE <<>>

\* the region the loop turns to after the one at position k (from 1), whether
\* or not that one failed: for (const boundingBox of boxesToProcess)
NextRegion(k, failed) == k + 1

\* the description of a generated layer: field count, processing time, confidence
\* the slip  boundaries.features.length  for  metadata.fieldCount
GeneratedDescription_CountsFeatures(result) ==
    Description("Generated", <<Len(result.boundaries), result.processingTime, result.confidence>>,
                <<>>)

GeneratedDescription(result) ==
    Description("Generated", <<result.fieldCount, result.processingTime, result.confidence>>, <<>>)

\* the layer built from an inference result by the region-drawing page
Region_ResultLayer(result, box, modelId, t) ==
    Layer(LayerId("delineated", "", t), <<modelId, " - ", ToString(t)>>, "vector",
          Some(result.boundaries), "#ef4444", GeneratedDescription(result),
          Some(FeatureMetadata(result.boundaries, <<box.id.prefix, ToString(box.id.t), "-feature-">>, "Field")),
          None, None)

\* error.message || 'Failed to generate boundaries'
ErrorMessage(response) ==
    IF DelineateErrorMessage(response) # "" THEN DelineateErrorMessage(response)
    ELSE "Failed to generate boundaries"

\* handleGenerateBoundaries(modelId), up to its first await
Region_handleGenerateBoundaries(modelId) ==
    /\ FreeSlots # {}
    /\ started < MaxInvocations
    /\ started' = started + 1
    /\ UNCHANGED <<now, layers, drawingMode, sidebar, mapView, picker>>
    /\ IF Len(boxesToProcess(modelId)) = 0 THEN
            /\ alert' = "No bounding box and no visible raster bounds found. Please show a raster layer."
            /\ UNCHANGED <<boundingBoxes, isGenerating, runs>>
       ELSE IF ~ IsSome(topVisibleRaster) THEN
            /\ alert' = "Please make a raster layer visible before generating boundaries."
            /\ UNCHANGED <<boundingBoxes, isGenerating, runs>>
       ELSE LET boxes == boxesToProcess(modelId) IN
            /\ isGenerating' = TRUE
            /\ boundingBoxes' = MarkProcessing(boundingBoxes, boxes[1].id, modelId)
            /\ runs' = [runs EXCEPT ![SetMin(FreeSlots)] =
                           Run([i \in 1..Len(boxes) |-> Captured(boxes[i])], 1, 1, modelId,
                               Some(ImageData(Get(topVisibleRaster))), NewRequest)]
            /\ alert' = ""

\* handleGenerateBoundaries resumed with the route's answer for the region at
\* position k: the rest of that iteration, then the next iteration up to its
\* await, or the end.  Nothing of the page changes between the route answering
\* and the handler resuming, so the two are one step here.
Region_Resume(r, response) ==
    /\ Waiting(r, "sent")
    /\ LET run == runs[r]
           box == run.boxes[run.k]
           failed == DelineateThrows(response)
           newLayer == Region_ResultLayer(Get(response.body.result), box, run.modelId, now)
           marked == IF failed THEN MarkError(boundingBoxes, box.id, ErrorMessage(response))
                     ELSE MarkCompleted(boundingBoxes, box.id, newLayer.id)
           next == NextRegion(run.k, failed)
       IN  /\ failed \/ Len(layers) < MaxLayers
           /\ layers' = IF failed THEN layers ELSE Prepend(<<newLayer>>, layers)
           /\ alert' = ""
           /\ IF next <= Len(run.boxes)
              THEN /\ boundingBoxes' = MarkProcessing(marked, run.boxes[next].id, run.modelId)
                   /\ runs' = [runs EXCEPT ![r] =
                                  Run(run.boxes, next, IF next = run.k THEN run.sends + 1 ELSE 1,
                                      run.modelId, run.raster, NewRequest)]
                   /\ UNCHANGED isGenerating
              ELSE /\ boundingBoxes' = marked
                   /\ runs' = [runs EXCEPT ![r] = FinishedRun]
                   /\ isGenerating' = FALSE
    /\ UNCHANGED <<now, drawingMode, started, sidebar, mapView, picker>>

----------------------------------------------------------------------------
(* Generation against a selected raster layer (src/frontend/app/page.tsx) *)

\* layers.find(l => l.id === layerId && l.type === 'raster')
selectedRaster(layerId) ==
    Find(layers, {i \in 1..Len(layers) : layers[i].id = layerId /\ layers[i].type = "raster"})

\* the layer built from an inference result by page.tsx
ResultLayer(result, raster, t) ==
    Layer(LayerId("delineated", "", t), raster.name \o <<" - Boundaries">>, "vector",
          Some(result.boundaries), "#ef4444", GeneratedDescription(result),
          Some(FeatureMetadata(result.boundaries, <<"delineated-feature-">>, "Field")),
          None, None)

\* the slip of a Generate button without the disabled attribute
GenerateDisabled_Never == FALSE

\* disabled={!canGenerate || isGenerating} of the sidebar's Generate button,
\* for a raster layer that is selected
GenerateDisabled == isGenerating

\* handleGenerateBoundaries(modelId, layerId), up to its await.  The sidebar
\* disables the button while isGenerating.
handleGenerateBoundaries(modelId, layerId) ==
    /\ ~ GenerateDisabled
    /\ FreeSlots # {}
    /\ UNCHANGED <<now, layers, boundingBoxes, drawingMode, started, sidebar, mapView, picker>>
    /\ LET found == selectedRaster(layerId) IN
       IF ~ IsSome(found) \/ ~ IsSome(Get(found).rasterBounds) \/ ~ IsSome(Get(found).rasterUrl) THEN
            /\ alert' = "Selected image is invalid or missing data."
            /\ UNCHANGED <<isGenerating, runs>>
       ELSE IF ~ InRange(Get(Get(found).rasterBounds)) THEN
            /\ alert' = "Invalid bounds detected!"
            /\ isGenerating' = FALSE
            /\ UNCHANGED runs
       ELSE IF ~ Ordered(Get(Get(found).rasterBounds)) THEN
            /\ alert' = "Invalid bounds order!"
            /\ isGenerating' = FALSE
            /\ UNCHANGED runs
       ELSE LET bounds == Get(Get(found).rasterBounds) IN
            /\ isGenerating' = TRUE
            /\ runs' = [runs EXCEPT ![SetMin(FreeSlots)] =
                           Run(<<[id |-> Get(found).id, bounds |-> bounds]>>, 1, 1, modelId,
                               Some(Selected(Get(found))), NewRequest)]
            /\ alert' = ""

\* handleGenerateBoundaries resumed with the answer: the layer and the success
\* alert, or the error alert; finally setIsGenerating(false)
Resume(r) ==
    /\ Waiting(r, "answered")
    /\ LET run == runs[r]
           response == run.req.response
           failed == DelineateThrows(response)
           newLayer == ResultLayer(Get(response.body.result), Get(run.raster), now)
       IN  /\ failed \/ Len(layers) < MaxLayers
           /\ layers' = IF failed THEN layers ELSE Prepend(<<newLayer>>, layers)
           /\ alert' = (IF failed THEN ErrorMessage(response) ELSE "Successfully generated field boundaries!")
           /\ runs' = [runs EXCEPT ![r] = FinishedRun]
           /\ isGenerating' = FALSE
    /\ UNCHANGED <<now, boundingBoxes, drawingMode, started, sidebar, mapView, picker>>

----------------------------------------------------------------------------
(* The map's viewport (src/frontend/components/Map/Map.tsx) *)

\* the Map before any effect has run: prevVisRef.current is null, nothing was
\* rendered, fitBounds was never called
MapConstructed == [rendered |-> None, prevVis |-> None, viewport |-> None]

\* layers.forEach(l => { record[l.id] = !!l.visible }): the identifiers the
\* record holds true for; of two layers with one identifier the later decides
VisibleIds(ls) ==
    {ls[i].id : i \in {i \in 1..Len(ls) :
                          ls[i].visible /\ \A j \in (i + 1)..Len(ls) : ls[j].id # ls[i].id}}

\* the box around the bounds of all features
UnionBounds(features) ==
    << <<SetMin({features[i].bounds[1][1] : i \in 1..Len(features)}),
         SetMin({features[i].bounds[1][2] : i \in 1..Len(features)})>>,
       <<SetMax({features[i].bounds[2][1] : i \in 1..Len(features)}),
         SetMax({features[i].bounds[2][2] : i \in 1..Len(features)})>> >>

\* VectorVisibilityController: the bounds it fits the map to, if any: those of
\* the first vector layer with features that is visible and was not before
VectorFit(prevVis, ls) ==
    LET shown == {i \in 1..Len(ls) :
                     /\ ls[i].type = "vector" /\ ls[i].id \notin prevVis /\ ls[i].visible
                     /\ IsSome(ls[i].features) /\ Len(Get(ls[i].features)) > 0}
    IN  IF shown = {} THEN None ELSE Some(UnionBounds(Get(ls[SetMin(shown)].features)))

\* LayerVisibilityController: the bounds of the first visible raster layer, if any
RasterFit(ls) ==
    LET found == Find(ls, {i \in 1..Len(ls) :
                              ls[i].visible /\ ls[i].type = "raster" /\ IsSome(ls[i].rasterBounds)})
    IN  IF IsSome(found) THEN Get(found).rasterBounds ELSE None

\* the effects of a commit with a new layers prop, in the order of the
\* components: VectorVisibilityController, then LayerVisibilityController
Map_Effects ==
    /\ mapView.rendered # Some(layers)
    /\ LET vectorFit == IF IsSome(mapView.prevVis)
                        THEN VectorFit(Get(mapView.prevVis), layers) ELSE None
           afterVector == IF IsSome(vectorFit) THEN vectorFit ELSE mapView.viewport
       IN  mapView' = [rendered |-> Some(layers),
                       prevVis |-> Some(VisibleIds(layers)),
                       viewport |-> IF IsSome(RasterFit(layers)) THEN RasterFit(layers)
                                    ELSE afterVector]
    /\ alert' = ""
    /\ UNCHANGED <<now, layers, boundingBoxes, isGenerating, runs, drawingMode, started, sidebar, picker>>

\* the effects of the last commit have run
Synced == mapView.rendered = Some(layers)

\* handleDragEnd of the sidebar as React runs it: items is a copy of the
\* layers prop of the last commit, which lacks what setLayers(prev => ...)
\* calls have queued since; setLayers(items) replaces the state
Sidebar_handleDragEnd(source, destination) ==
    /\ IsSome(mapView.rendered)
    /\ source < Len(Get(mapView.rendered))
    /\ destination < Len(Get(mapView.rendered))
    /\ layers' = IF destination = NoDestination THEN layers
                 ELSE Reordered(Get(mapView.rendered), source, destination)
    /\ alert' = ""
    /\ UNCHANGED <<now, boundingBoxes, isGenerating, runs, drawingMode, started, sidebar, mapView, picker>>

----------------------------------------------------------------------------
(* The sidebar's persisted state (Sidebar.tsx, and its revision part_003) *)

\* the <option> values of the model select
ModelOptions == {"delineate-v1", "delineate-v2", "delineate-hd"}

\* String(isCollapsed)
BoolString(b) == IF b THEN "true" ELSE "false"

\* new Set(array): the elements in order of first occurrence
SetOfArray(array) ==
    LET first == {i \in 1..Len(array) : \A j \in 1..(i - 1) : array[j] # array[i]}
        Nth[k \in 1..Cardinality(first)] ==
            CHOOSE i \in first : Cardinality({j \in first : j < i}) = k - 1
    IN  [k \in 1..Cardinality(first) |-> array[Nth[k]]]

\* localStorage before anything was saved
NoStorage == [collapsed |-> None, expandedLayers |-> None, selectedModel |-> None]

\* the useState initial values; mounted is FALSE until the effects of the
\* first commit have run
Constructed(storage) ==
    [mounted |-> FALSE, isCollapsed |-> FALSE, expandedLayers |-> <<>>,
     selectedModel |-> "delineate-v1", storage |-> storage]

\* the three save effects, each setItem of the state it depends on; only
\* part_003 has the third
SaveEffects(sb, persistsModel) ==
    [sb EXCEPT !.storage =
        [collapsed |-> Some(BoolString(sb.isCollapsed)),
         expandedLayers |-> Some(sb.expandedLayers),
         selectedModel |-> IF persistsModel THEN Some(sb.selectedModel) ELSE @.selectedModel]]

\* the load effect: getItem and the setState calls it makes
LoadEffect(sb, storage, persistsModel) ==
    [sb EXCEPT
        !.isCollapsed = IF IsSome(storage.collapsed) THEN Get(storage.collapsed) = "true" ELSE @,
        !.expandedLayers =
            IF IsSome(storage.expandedLayers) THEN SetOfArray(Get(storage.expandedLayers)) ELSE @,
        !.selectedModel =
            IF persistsModel /\ IsSome(storage.selectedModel) /\ Get(storage.selectedModel) # ""
            THEN Get(storage.selectedModel) ELSE @]

\* the effects of the first commit, in the order they are declared: the load
\* effect reads the storage, the save effects write the initial values; then
\* the commit of the loaded state, whose save effects write it
Mounted(sb, persistsModel) ==
    LET read == sb.storage
        written == SaveEffects(sb, persistsModel)
        loaded == LoadEffect(written, read, persistsModel)
    IN  [SaveEffects(loaded, persistsModel) EXCEPT !.mounted = TRUE]

Sidebar_Mount(persistsModel) ==
    /\ ~ sidebar.mounted
    /\ sidebar' = Mounted(sidebar, persistsModel)
    /\ alert' = ""
    /\ UNCHANGED <<now, layers, boundingBoxes, isGenerating, runs, drawingMode, started, mapView, picker>>

\* onClick={() => setIsCollapsed(!isCollapsed)}, and the save effect
Sidebar_ToggleCollapsed(persistsModel) ==
    /\ sidebar.mounted
    /\ sidebar' = SaveEffects([sidebar EXCEPT !.isCollapsed = ~ @], persistsModel)
    /\ alert' = ""
    /\ UNCHANGED <<now, layers, boundingBoxes, isGenerating, runs, drawingMode, started, mapView, picker>>

\* toggleLayerExpansion: delete the identifier if the set has it, add it if not
ToggledExpansion(expanded, layerId) ==
    IF \E i \in 1..Len(expanded) : expanded[i] = layerId
    THEN SelectSeq(expanded, LAMBDA e : e # layerId)
    ELSE Append(expanded, layerId)

toggleLayerExpansion(layerId, persistsModel) ==
    /\ sidebar.mounted
    /\ sidebar' = SaveEffects([sidebar EXCEPT !.expandedLayers = ToggledExpansion(@, layerId)],
                              persistsModel)
    /\ alert' = ""
    /\ UNCHANGED <<now, layers, boundingBoxes, isGenerating, runs, drawingMode, started, mapView, picker>>

\* onChange={(e) => setSelectedModel(e.target.value)}, and the save effect
Sidebar_SelectModel(model, persistsModel) ==
    /\ sidebar.mounted
    /\ sidebar' = SaveEffects([sidebar EXCEPT !.selectedModel = model], persistsModel)
    /\ alert' = ""
    /\ UNCHANGED <<now, layers, boundingBoxes, isGenerating, runs, drawingMode, started, mapView, picker>>

\* the page is loaded again: every component is constructed anew, localStorage
\* is what it was, and the sidebar's first commit runs its effects
Sidebar_Reload(persistsModel) ==
    /\ sidebar.mounted
    /\ sidebar' = Mounted(Constructed(sidebar.storage), persistsModel)
    /\ layers' = <<>>
    /\ boundingBoxes' = <<>>
    /\ isGenerating' = FALSE
    /\ runs' = [r \in 1..MaxRuns |-> FinishedRun]
    /\ alert' = ""
    /\ drawingMode' = "none"
    /\ mapView' = MapConstructed
    /\ UNCHANGED <<now, started, picker>>

----------------------------------------------------------------------------
(* The two specifications *)

Init ==
    /\ now = 0
    /\ layers = <<>>
    /\ boundingBoxes = <<>>
    /\ isGenerating = FALSE
    /\ runs = [r \in 1..MaxRuns |-> FinishedRun]
    /\ alert = ""
    /\ drawingMode = "none"
    /\ started = 0
    /\ sidebar = Constructed(NoStorage)
    /\ mapView = MapConstructed
    /\ picker = NoSelection

Store ==
    \/ Tick
    \/ \E id \in KnownIds : handleToggleLayer(id)
    \/ \E id \in KnownIds : handleRemoveLayer(id)
    \/ Drag

Route ==
    \E r \in 1..MaxRuns :
        \/ POST_ok(r)
        \/ POST_remoteError(r)
        \/ POST_timeout(r)
        \/ POST_networkError(r)
        \/ POST_stalledBody(r)

\* the region-drawing page (src/unnamed/part_002)
Next ==
    \/ Store
    \/ \E file \in RegionFiles : Region_handleFileUpload(file)
    \/ handleToggleDrawing
    \/ \E bounds \in DrawnBounds : handleBoundingBoxCreated(bounds)
    \/ \E i \in 1..Len(boundingBoxes) : handleDeleteBoundingBox(boundingBoxes[i].id)
    \/ \E modelId \in Models : Region_handleGenerateBoundaries(modelId)
    \/ \E r \in 1..MaxRuns : \E response \in RouteResponses : Region_Resume(r, response)

Spec == Init /\ [][Next]_vars

\* the layer-selecting page (src/frontend/app/page.tsx)
NextPage ==
    \/ Store
    \/ Route
    \/ \E file \in PageFiles : handleFileUpload(file)
    \/ \E modelId \in Models : \E layerId \in KnownIds : handleGenerateBoundaries(modelId, layerId)
    \/ \E r \in 1..MaxRuns : Resume(r)

SpecPage == Init /\ [][NextPage]_vars

\* the upload handler of page.tsx on its own, tried on every kind of file
NextUpload ==
    \/ Tick
    \/ \E file \in UploadFiles : handleFileUpload(file)

SpecUpload == Init /\ [][NextUpload]_vars

\* generation on page.tsx on its own: rasters with valid and with invalid
\* bounds, every answer of the route, and an answer of another shape
NextGenerate ==
    \/ Tick
    \/ \E file \in {SceneTif, UtmTif} : handleFileUpload(file)
    \/ \E id \in KnownIds : handleToggleLayer(id)
    \/ \E modelId \in Models : \E layerId \in KnownIds : handleGenerateBoundaries(modelId, layerId)
    \/ Route
    \/ \E r \in 1..MaxRuns : POST_okSparse(r)
    \/ \E r \in 1..MaxRuns : Resume(r)

SpecGenerate == Init /\ [][NextGenerate]_vars

\* the sidebar of Sidebar.tsx over the store of page.tsx
NextSidebar ==
    \/ Sidebar_Mount(FALSE)
    \/ \E file \in {SceneTif, FieldsGeojson} : handleFileUpload(file)
    \/ Sidebar_ToggleCollapsed(FALSE)
    \/ \E i \in 1..Len(layers) : toggleLayerExpansion(layers[i].id, FALSE)
    \/ \E model \in ModelOptions : Sidebar_SelectModel(model, FALSE)
    \/ Sidebar_Reload(FALSE)

SpecSidebar == Init /\ [][NextSidebar]_vars

\* the sidebar of part_003 over the store of part_002
NextSidebar3 ==
    \/ Sidebar_Mount(TRUE)
    \/ \E file \in {SceneTif} : Region_handleFileUpload(file)
    \/ Tick
    \/ Sidebar_ToggleCollapsed(TRUE)
    \/ \E i \in 1..Len(layers) : toggleLayerExpansion(layers[i].id, TRUE)
    \/ \E model \in ModelOptions : Sidebar_SelectModel(model, TRUE)
    \/ Sidebar_Reload(TRUE)

SpecSidebar3 == Init /\ [][NextSidebar3]_vars

\* the map over the store of page.tsx: effects run after every commit, before
\* the next event is handled
NextMap ==
    \/ Tick
    \/ Map_Effects
    \/ Synced /\ \E file \in {SceneTif, UtmTif, FieldsGeojson} : handleFileUpload(file)
    \/ Synced /\ \E id \in KnownIds : handleToggleLayer(id)

SpecMap == Init /\ [][NextMap]_vars

\* page.tsx with its commits apart from its state updates: an upload's
\* setLayers is queued from a FileReader or promise callback and committed
\* later; the sidebar's handlers run on the props of the last commit
NextReorder ==
    \/ \E file \in {SceneTif, FieldsGeojson} : handleFileUpload(file)
    \/ Map_Effects
    \/ \E id \in KnownIds : handleToggleLayer(id)
    \/ \E id \in KnownIds : handleRemoveLayer(id)
    \/ \E source \in 0..MaxLayers : \E destination \in (0..MaxLayers) \cup {NoDestination} :
          Sidebar_handleDragEnd(source, destination)

SpecReorder == Init /\ [][NextReorder]_vars

\* generation on the region-drawing page on its own: one raster, regions drawn
\* and deleted, invocations that overlap
NextFinish ==
    \/ Tick
    \/ Region_handleFileUpload(SceneTif)
    \/ handleToggleDrawing
    \/ \E bounds \in DrawnBounds : handleBoundingBoxCreated(bounds)
    \/ \E i \in 1..Len(boundingBoxes) : handleDeleteBoundingBox(boundingBoxes[i].id)
    \/ \E modelId \in Models : Region_handleGenerateBoundaries(modelId)
    \/ \E r \in 1..MaxRuns : \E response \in RouteResponses : Region_Resume(r, response)

\* every call of delineateFields returns or throws: an invocation that waits
\* at its await is resumed
SpecFinish ==
    /\ Init /\ [][NextFinish]_vars
    /\ \A r \in 1..MaxRuns : WF_vars(\E response \in RouteResponses : Region_Resume(r, response))

\* several files chosen at once in the sidebar's file input
SelectionFiles == {SceneTif, BrokenTif, FieldsGeojson, SingleFeatureJson, BadJson, PlotsGpkg}
MaxSelection == 2   \* files chosen in one change event at most

Selections ==
    UNION {[1..n -> SelectionFiles] : n \in 1..MaxSelection}

NextSelect ==
    \/ \E files \in Selections : handleFileChange(files)
    \/ FileChange_Upload
    \/ \E i \in 1..MaxSelection : FileReader_onload(i)

SpecSelect == Init /\ [][NextSelect]_vars

\* the same page with what the runtime guarantees of the route: a timer that
\* is set fires unless it is cleared first.  Nothing is assumed of the endpoint.
SpecRoute == Init /\ [][NextPage]_vars /\ WF_vars(\E r \in 1..MaxRuns : POST_timeout(r))

----------------------------------------------------------------------------
(* Properties of the region-drawing page, checked under Spec *)

ValidBounds(b) ==
    /\ South(b) < North(b) /\ West(b) < East(b)
    /\ South(b) >= -90 /\ North(b) <= 90
    /\ West(b) >= -180 /\ East(b) <= 180

\* the regions generation is waiting for an answer on
Submitted == {runs[r].boxes[runs[r].k] : r \in {q \in 1..MaxRuns : runs[q].k > 0}}

\* C1: every region in the region list and every region submitted for
\* inference has south < north, west < east, latitudes in [-90, 90] and
\* longitudes in [-180, 180]
C1_RegionsValid ==
    /\ \A i \in 1..Len(boundingBoxes) : ValidBounds(boundingBoxes[i].bounds)
    /\ \A box \in Submitted : ValidBounds(box.bounds)

Terminal(box) == box.status \in {"completed", "error"}

LifecycleStep(before, after) ==
    \/ after = before
    \/ /\ ~ Terminal(before)
       /\ \/ before.status = "pending" /\ after.status = "processing"
          \/ before.status = "processing" /\ after.status \in {"completed", "error"}

\* C3: in every step a region that stays in the list either is left as it is or
\* goes pending -> processing, processing -> completed or processing -> error;
\* a completed or failed region is never changed again
C3_StatusLifecycle ==
    [][\A i \in 1..Len(boundingBoxes) : \A j \in 1..Len(boundingBoxes') :
          boundingBoxes[i].id = boundingBoxes'[j].id
              => LifecycleStep(boundingBoxes[i], boundingBoxes'[j])]_vars

----------------------------------------------------------------------------
(* Properties of the layer-selecting page and of the route, checked under     *)
(* SpecPage                                                                   *)

\* C2: no two layers of the store have the same identifier
C2_UniqueLayerIds ==
    \A i \in 1..Len(layers) : \A j \in 1..Len(layers) : i # j => layers[i].id # layers[j].id

\* C4: a toggle changes nothing but the visible flag of the layers with the
\* given id, which it flips, and a second toggle of the same id gives back the
\* store as it was
C4_ToggleTwice ==
    [][\A id \in KnownIds :
          handleToggleLayer(id) =>
              /\ Len(layers') = Len(layers)
              /\ \A i \in 1..Len(layers) :
                    /\ [layers'[i] EXCEPT !.visible = layers[i].visible] = layers[i]
                    /\ layers'[i].visible =
                           (IF layers[i].id = id THEN ~ layers[i].visible ELSE layers[i].visible)
              /\ ToggleLayer(layers', id) = layers]_vars

\* a hidden layer in the store, behind or in front of a visible one
C4_HiddenLayer ==
    \E i \in 1..Len(layers) : \E j \in 1..Len(layers) : ~ layers[i].visible /\ layers[j].visible

\* the multiset of the elements of a sequence
BagOf(s) == [x \in {s[i] : i \in 1..Len(s)} |-> Cardinality({i \in 1..Len(s) : s[i] = x})]

C6_AddPrepends ==
    [][Len(layers') > Len(layers) =>
          LET n == Len(layers') - Len(layers)
          IN  /\ \A i \in 1..Len(layers) : layers'[n + i] = layers[i]
              /\ \A file \in PageFiles :
                    handleFileUpload(file) /\ IsGpkg(file) =>
                        [i \in 1..n |-> layers'[i].id.table]
                            = [i \in 1..Len(NonEmptyTables(file)) |-> NonEmptyTables(file)[i].table]
              /\ \A file \in PageFiles :
                    handleFileUpload(file) /\ ~ IsGpkg(file) =>
                        n = 1 /\ layers'[1].name = StripExtension(file.name)
              /\ \A r \in 1..MaxRuns :
                    Resume(r) => n = 1 /\ layers'[1].id.prefix = "delineated"]_vars

\* the two layers of a GeoPackage in front of a raster that was there before
C6_GeoPackageInFront ==
    /\ Len(layers) = 3
    /\ layers[1].id.table = "roads"
    /\ layers[2].id.table = "parcels"
    /\ layers[3].type = "raster"

\* C7: removing an id takes every layer carrying it out of the store and leaves
\* the others as they were and in their order; an id no layer carries changes
\* nothing
C7_RemoveExact ==
    [][\A id \in KnownIds :
          handleRemoveLayer(id) =>
              LET kept == {i \in 1..Len(layers) : layers[i].id # id}
                  pos(i) == Cardinality({j \in kept : j <= i})
              IN  /\ Len(layers') = Cardinality(kept)
                  /\ \A i \in kept : layers'[pos(i)] = layers[i]
                  /\ kept = 1..Len(layers) => layers' = layers]_vars

\* generated boundaries in a store whose raster layers have all been removed
C7_RasterRemoved ==
    /\ \E i \in 1..Len(layers) : layers[i].id.prefix = "delineated"
    /\ \A i \in 1..Len(layers) : layers[i].type # "raster"

\* C8: generation invoked with no region drawn and no raster layer visible
\* raises a notification, sends no request and adds no region and no layer
C8_NothingToGenerateFrom ==
    [][\A modelId \in Models : \A layerId \in KnownIds :
          ( /\ handleGenerateBoundaries(modelId, layerId)
            /\ boundingBoxes = <<>>
            /\ ~ \E i \in 1..Len(layers) : layers[i].type = "raster" /\ layers[i].visible )
          => /\ alert' # ""
             /\ runs' = runs
             /\ layers' = layers
             /\ boundingBoxes' = boundingBoxes]_vars

Answered == {runs[r].req : r \in {q \in 1..MaxRuns : runs[q].k > 0 /\ runs[q].req.st = "answered"}}

\* C9: the route answers a timeout with 504 and the timeout message, a remote
\* non-success with the remote status and payload, and a network failure with
\* neither of the two
C9_FailuresDistinct ==
    \A req \in Answered :
        /\ req.kind = "timeout" =>
               req.response.status = 504 /\ req.response.body.error = TimeoutMessage
        /\ req.kind = "remote" => req.response = req.remote
        /\ req.kind = "network" =>
               /\ req.response.status # 504
               /\ req.response.body.error # TimeoutMessage
               /\ \A e \in RemoteErrors : req.response # Response(e.status, e.payload)

\* C10: an invocation sends at most one request for a region, the route passes
\* a request on at most once, and a request is on its way only because the
\* user invoked generation
C10_NoRetry ==
    [][/\ \A r \in 1..MaxRuns : runs'[r].sends <= 1 /\ runs'[r].req.forwards <= 1
       /\ \A r \in 1..MaxRuns :
             (runs'[r].req.st = "sent" /\ runs[r].req.st # "sent") =>
                 \E modelId \in Models : \E layerId \in KnownIds :
                     handleGenerateBoundaries(modelId, layerId)]_vars

\* a request the endpoint could not be reached for, passed on once and answered
C10_FailedOnce ==
    \E req \in Answered : req.kind = "network" /\ req.forwards = 1


----------------------------------------------------------------------------
(* Properties of the route under what its timer guarantees, checked under     *)
(* SpecRoute                                                                  *)

\* C11: every request the route has taken up is answered in the end
C11_EveryRequestAnswered ==
    \A r \in 1..MaxRuns :
        (runs[r].k > 0 /\ runs[r].req.st = "sent") ~> (runs[r].req.st = "answered")


----------------------------------------------------------------------------
(* Properties of the upload handler, checked under SpecUpload *)

\* the positions of the geometries a GeoJSON file holds, feature by feature
GeometriesOf(file) ==
    IF file.json.type = "Feature" THEN <<file.json.pts>>
    ELSE [i \in 1..Len(Get(file.json.features)) |-> Get(file.json.features)[i].pts]

\* a FeatureCollection with a features list, or a single Feature
IsGeoJson(file) ==
    /\ ~ IsTiff(file) /\ ~ IsGpkg(file) /\ file.parses
    /\ \/ file.json.type = "Feature"
       \/ file.json.type = "FeatureCollection" /\ IsSome(file.json.features)

\* C12: the upload of a GeoJSON file with N features adds exactly one vector
\* layer, named as the file without its last extension, with N feature
\* entries, entry i bounding the positions of feature i as
\* [[south, west], [north, east]]
C12_GeoJsonRoundTrip ==
    [][\A file \in UploadFiles :
          handleFileUpload(file) /\ IsGeoJson(file) =>
              /\ Len(layers') = Len(layers) + 1
              /\ layers'[1].type = "vector"
              /\ layers'[1].name = SubSeq(file.name, 1, Len(file.name) - 1)
              /\ Len(Get(layers'[1].features)) = Len(GeometriesOf(file))
              /\ \A i \in 1..Len(GeometriesOf(file)) : \A p \in GeometriesOf(file)[i] :
                    LET b == Get(layers'[1].features)[i].bounds
                    IN  /\ South(b) <= p[2] /\ p[2] <= North(b)
                        /\ West(b) <= p[1] /\ p[1] <= East(b)]_vars

\* the layer "fields" with its two feature entries, and the layer of a single Feature
C12_FieldsLayer ==
    /\ \E i \in 1..Len(layers) :
          layers[i].name = <<"fields">> /\ Len(Get(layers[i].features)) = 2
    /\ \E i \in 1..Len(layers) :
          layers[i].name = <<"farm", "v2">> /\ Len(Get(layers[i].features)) = 1

\* a raster that cannot be parsed, a GeoPackage that cannot be opened, text that
\* is not JSON, JSON that is neither a Feature nor a FeatureCollection with features
FailingFile(file) ==
    \/ ~ file.parses
    \/ ~ IsTiff(file) /\ ~ IsGpkg(file) /\ ~ IsGeoJson(file)

\* C13: an upload that fails leaves the layer store as it was and raises a
\* notification
C13_FailedUploadKeepsStore ==
    [][\A file \in UploadFiles :
          handleFileUpload(file) /\ FailingFile(file) => layers' = layers /\ alert' # ""]_vars

\* a failed JSON upload, notified, with the layer of an earlier upload still in the store
C13_FailureOverStore == alert = "Error parsing JSON file" /\ Len(layers) = 1

\* C14: no layer of the store has zero features
C14_NoEmptyLayer ==
    \A i \in 1..Len(layers) :
        layers[i].type = "vector" => Len(Get(layers[i].data)) > 0

\* the integer nearest to v * 255 (v in thousandths), halves upwards
Nearest255(v) == CHOOSE q \in -1000..1000 : 1000 * q - 500 <= 255 * v /\ 255 * v < 1000 * q + 500

\* what the claim asks of one channel fed with sample v
ExpectedChannel(v, isFloat) ==
    LET x == IF isFloat THEN Nearest255(v) ELSE v
    IN  IF x < 0 THEN 0 ELSE IF x > 255 THEN 255 ELSE x

\* C15: every pixel of an ingested raster has alpha 255 and channels within
\* 0..255, red of band one, green of band two else band one, blue of band
\* three else band one, integers clamped, floating-point samples times 255
\* rounded and clamped; uniform 128 gives 128, 128, 128, 255
C15_Rasterization ==
    [][\A file \in UploadFiles :
          handleFileUpload(file) /\ IsTiff(file) /\ file.parses =>
              LET px == Get(layers'[1].rasterUrl).png
                  green == IF Len(file.bands) >= 2 THEN 2 ELSE 1
                  blue == IF Len(file.bands) >= 3 THEN 3 ELSE 1
              IN  /\ Len(px) = 4 * file.width * file.height
                  /\ \A k \in 1..Len(px) : px[k] \in 0..255
                  /\ \A i \in 1..(file.width * file.height) :
                        /\ px[4 * i - 3] = ExpectedChannel(file.bands[1][i], file.isFloat)
                        /\ px[4 * i - 2] = ExpectedChannel(file.bands[green][i], file.isFloat)
                        /\ px[4 * i - 1] = ExpectedChannel(file.bands[blue][i], file.isFloat)
                        /\ px[4 * i] = 255
                  /\ file = SceneTif => px = <<128, 128, 128, 255>>]_vars

\* the bitmaps of the floating-point raster and of the three-band raster
C15_FloatAndRgbBitmaps ==
    /\ \E i \in 1..Len(layers) : layers[i].type = "raster" /\
          Get(layers[i].rasterUrl).png = <<128, 128, 128, 255, 255, 255, 255, 255, 0, 0, 0, 255>>
    /\ \E i \in 1..Len(layers) : layers[i].type = "raster" /\
          Get(layers[i].rasterUrl).png = <<10, 20, 30, 255, 255, 0, 0, 255>>

\* C16: a raster without CRS identifier, or with identifier 4326, gets its
\* native box (minX, minY, maxX, maxY) as bounds [[minY, minX], [maxY, maxX]],
\* and no reprojection is attempted: none is described, none fails
C16_GeographicPassThrough ==
    [][\A file \in UploadFiles :
          handleFileUpload(file) /\ IsTiff(file) /\ file.parses /\ file.epsg \in {0, 4326} =>
              /\ layers'[1].rasterBounds =
                     Some(<< <<file.bbox[2], file.bbox[1]>>, <<file.bbox[4], file.bbox[3]>> >>)
              /\ layers'[1].description.detail = <<"EPSG:4326 (WGS84)">>
              /\ alert' = ""]_vars

\* the raster without CRS keys and the raster in EPSG:4326, both at their native boxes
C16_NativeBounds ==
    /\ \E i \in 1..Len(layers) :
          /\ layers[i].name = <<"plain">>
          /\ layers[i].rasterBounds = Some(<< <<10, 20>>, <<15, 25>> >>)
    /\ \E i \in 1..Len(layers) :
          /\ layers[i].name = <<"scene">>
          /\ layers[i].rasterBounds = Some(<< <<10, 20>>, <<15, 25>> >>)

\* C17: when the reprojection of a raster's corners fails, a warning is
\* raised, the layer is added in front of the store, and its bounds are the
\* native box unchanged
C17_ReprojectionFailureTolerated ==
    [][\A file \in UploadFiles :
          handleFileUpload(file) /\ IsTiff(file) /\ file.parses
                                 /\ file.epsg \notin {0, 4326, 3857} =>
              /\ Len(layers') = Len(layers) + 1
              /\ SubSeq(layers', 2, Len(layers')) = layers
              /\ layers'[1].type = "raster"
              /\ layers'[1].name = SubSeq(file.name, 1, Len(file.name) - 1)
              /\ layers'[1].rasterBounds =
                     Some(<< <<file.bbox[2], file.bbox[1]>>, <<file.bbox[4], file.bbox[3]>> >>)
              /\ alert' = "Warning: Could not reproject coordinates"]_vars

\* the raster in EPSG:32633 in the store at its native box, the warning raised
C17_UtmAtNativeBox ==
    /\ alert = "Warning: Could not reproject coordinates"
    /\ Len(layers) = 2
    /\ layers[1].name = <<"utm">>
    /\ layers[1].rasterBounds = Some(<< <<100, 200>>, <<150, 250>> >>)

\* the positions of the tables of a GeoPackage that have at least one row
TablesWithRows(file) == {k \in 1..Len(file.tables) : Len(file.tables[k].features) > 0}

\* C24: a GeoPackage upload adds as many layers as it has feature tables with
\* at least one row, one per such table, named after the table, with one
\* feature and one feature-metadata entry per row; empty tables give nothing
C24_OneLayerPerNonEmptyTable ==
    [][\A file \in UploadFiles :
          handleFileUpload(file) /\ IsGpkg(file) /\ file.parses =>
              /\ Len(layers') = Len(layers) + Cardinality(TablesWithRows(file))
              /\ \A k \in TablesWithRows(file) :
                    LET n == Cardinality({j \in TablesWithRows(file) : j <= k})
                    IN  /\ layers'[n].name = <<file.tables[k].table>>
                        /\ layers'[n].type = "vector"
                        /\ Len(Get(layers'[n].data)) = Len(file.tables[k].features)
                        /\ Len(Get(layers'[n].features)) = Len(file.tables[k].features)]_vars

\* the one layer of plots.gpkg, with the two rows of its table "plots"
C24_PlotsLayer ==
    /\ Len(layers) = 2
    /\ layers[1].name = <<"plots">>
    /\ Len(Get(layers[1].data)) = 2 /\ Len(Get(layers[1].features)) = 2
    /\ layers[2].name # <<"fallow">>

----------------------------------------------------------------------------
(* Properties of generation, checked under SpecGenerate *)

\* C18: a generation that succeeds puts exactly one new visible vector layer
\* in front of the store, its description holding the returned field count
\* and its feature list one entry per returned feature; a failed inference
\* call leaves the store as it was
C18_GenerationResult ==
    [][\A r \in 1..MaxRuns :
          Resume(r) =>
              LET response == runs[r].req.response
              IN  IF response.status \in 200..299
                  THEN LET result == Get(response.body.result)
                       IN  /\ Len(layers') = Len(layers) + 1
                           /\ SubSeq(layers', 2, Len(layers')) = layers
                           /\ layers'[1].type = "vector"
                           /\ layers'[1].visible
                           /\ layers'[1].description.n[1] = result.fieldCount
                           /\ Len(Get(layers'[1].features)) = Len(result.boundaries)
                  ELSE layers' = layers]_vars

\* the layer of the sparse answer (3 fields counted, 1 feature) over a hidden raster
C18_SparseLayerAdded ==
    /\ Len(layers) = 2
    /\ layers[1].type = "vector" /\ layers[1].visible
    /\ layers[1].description.n[1] = 3 /\ Len(Get(layers[1].features)) = 1
    /\ layers[2].type = "raster" /\ ~ layers[2].visible
    /\ alert = "Successfully generated field boundaries!"

\* the region-drawing page does the same, region by region
RegionGenerationResult ==
    [][\A r \in 1..MaxRuns : \A response \in RouteResponses :
          Region_Resume(r, response) =>
              IF response.status \in 200..299
              THEN /\ Len(layers') = Len(layers) + 1
                   /\ SubSeq(layers', 2, Len(layers')) = layers
                   /\ layers'[1].type = "vector" /\ layers'[1].visible
                   /\ layers'[1].description.n[1] = Get(response.body.result).fieldCount
                   /\ Len(Get(layers'[1].features)) = Len(Get(response.body.result).boundaries)
              ELSE layers' = layers]_vars

\* the invocations of handleGenerateBoundaries between their request and
\* their resumption
InFlight == {r \in 1..MaxRuns : runs[r].k > 0}

\* C27: on page.tsx at most one inference request is in flight, the
\* generating flag is set while it is, and every way out of
\* handleGenerateBoundaries (success, failure, rejected bounds) leaves the flag
\* cleared
C27_OneRequestInFlight ==
    [][/\ Cardinality(InFlight') <= 1
       /\ InFlight' # {} => isGenerating'
       /\ \A r \in 1..MaxRuns : Resume(r) => ~ isGenerating' /\ InFlight' = {}
       /\ \A modelId \in Models : \A layerId \in KnownIds :
             handleGenerateBoundaries(modelId, layerId) =>
                 /\ InFlight = {}
                 /\ runs' = runs => ~ isGenerating']_vars

\* a generation has added its layer and the next one is in flight, the flag set
C27_SecondGenerationInFlight ==
    /\ Cardinality(InFlight) = 1
    /\ isGenerating
    /\ \E r \in InFlight : runs[r].req.st = "sent"
    /\ \E i \in 1..Len(layers) : layers[i].id.prefix = "delineated"

----------------------------------------------------------------------------
(* Properties of the sidebar, checked under SpecSidebar and SpecSidebar3 *)

Elements(seq) == {seq[i] : i \in 1..Len(seq)}

\* C19: after a reload the collapse flag, the set of expanded layers and the
\* selected model each hold the value they had after their last change
C19_SidebarStateSurvivesReload ==
    [][Sidebar_Reload(FALSE) \/ Sidebar_Reload(TRUE) =>
              /\ sidebar'.isCollapsed = sidebar.isCollapsed
              /\ Elements(sidebar'.expandedLayers) = Elements(sidebar.expandedLayers)
              /\ sidebar'.selectedModel = sidebar.selectedModel]_vars

----------------------------------------------------------------------------
(* Properties of the map, checked under SpecMap *)

\* the bounds of a layer: those of the raster, or the box around its features
BoundsOf(layer) ==
    IF layer.type = "raster" THEN layer.rasterBounds
    ELSE Some(UnionBounds(Get(layer.features)))

\* layer i of the store is visible and was hidden in the store state before
TurnedVisible(before, i) ==
    /\ layers[i].visible
    /\ \E j \in 1..Len(before) : before[j].id = layers[i].id /\ ~ before[j].visible

\* no two layers of the store share an identifier
DistinctIds == \A i, j \in 1..Len(layers) : i # j => layers[i].id # layers[j].id

\* C20: when a layer turns from hidden to visible between two consecutive
\* store states, the map's effects leave the viewport fitted to that layer's
\* bounds (asked here only of stores whose identifiers are distinct)
C20_ShownLayerIsFitted ==
    [][Map_Effects /\ IsSome(mapView.rendered) /\ DistinctIds =>
          \A i \in 1..Len(layers) :
              TurnedVisible(Get(mapView.rendered), i) => mapView'.viewport = BoundsOf(layers[i])]_vars

\* the store the map renders holds the layers it rendered before, unchanged,
\* behind layers that were added
LayersAdded(before) ==
    /\ Len(layers) > Len(before)
    /\ SubSeq(layers, Len(layers) - Len(before) + 1, Len(layers)) = before

\* C25: the map's effects after layers were added by an upload leave the
\* viewport where it was
C25_UploadKeepsViewport ==
    [][Map_Effects /\ IsSome(mapView.rendered) /\ LayersAdded(Get(mapView.rendered)) =>
          mapView'.viewport = mapView.viewport]_vars

\* the identifiers of the layers of a store
IdsOf(ls) == {ls[i].id : i \in 1..Len(ls)}

\* C28: no step but a removal takes a layer out of the store, and a removal
\* takes out the layers of the removed identifier only
C28_NoLayerLost ==
    [][\/ IdsOf(layers) \subseteq IdsOf(layers')
       \/ \E id \in KnownIds : handleRemoveLayer(id) /\ IdsOf(layers) \ {id} \subseteq IdsOf(layers')]_vars

----------------------------------------------------------------------------
(* Properties of a selection of several files, checked under SpecSelect       *)

\* the names of the layers a file yields, in the order they enter the store
NamesOfFile(file) ==
    LET added == UploadResult(file, 0, CHOOSE color \in RandomColors : TRUE, RasterLayer(file, 0))[1]
    IN  [i \in 1..Len(added) |-> added[i].name]

\* the names at the top of the store after the files were ingested one after
\* another: the layers of the last file first
RECURSIVE NamesInReverse(_)
NamesInReverse(files) ==
    IF files = <<>> THEN <<>>
    ELSE NamesInReverse(Tail(files)) \o NamesOfFile(Head(files))

NamesOfLayers(ls) == [i \in 1..Len(ls) |-> ls[i].name]

\* C29: ingestion of a chosen file begins only when no read of an earlier file
\* is pending, and once the selection is ingested the store holds its layers
\* at the top in the reverse of the order of selection
C29_SelectionIngestedInOrder ==
    /\ [][FileChange_Upload => picker.reading = {}]_vars
    /\ [](SelectionDone =>
            LET expected == NamesInReverse(picker.selected)
            IN  /\ Len(layers) >= Len(expected)
                /\ SubSeq(NamesOfLayers(layers), 1, Len(expected)) = expected)

----------------------------------------------------------------------------
(* Properties of an invocation's end, checked under SpecFinish                *)

\* the identifiers of the regions in the list with the status 'processing'
Processing == {boundingBoxes[i].id : i \in {j \in 1..Len(boundingBoxes) : boundingBoxes[j].status = "processing"}}

\* every identifier a region takes in the model
RegionIds == {LayerId("bbox", "", t) : t \in 0..MaxTime}

\* C30: an invocation that waits for the inference call ends, the step that
\* ends it leaves the generating flag false, and a region in processing comes
\* to be completed or in error (or is deleted)
C30_InvocationFinishes ==
    /\ \A r \in 1..MaxRuns : (runs[r] # FinishedRun) ~> (runs[r] = FinishedRun)
    /\ \A id \in RegionIds : (id \in Processing) ~> (id \notin Processing)
    /\ [][\A r \in 1..MaxRuns :
              runs[r] # FinishedRun /\ runs'[r] = FinishedRun => ~ isGenerating']_vars
    /\ []((\A r \in 1..MaxRuns : runs[r] = FinishedRun) => ~ isGenerating /\ Processing = {})

\* the same of page.tsx, where the invocation has one await and no region:
\* the step that ends an invocation leaves the generating flag false, and the
\* flag is false whenever no invocation waits (checked under SpecGenerate)
PageInvocationClearsFlag ==
    /\ [][\A r \in 1..MaxRuns :
              runs[r] # FinishedRun /\ runs'[r] = FinishedRun => ~ isGenerating']_vars
    /\ []((\A r \in 1..MaxRuns : runs[r] = FinishedRun) => ~ isGenerating)

\* two invocations have ended, one region is completed and one is in error
C30_EndedWithError ==
    /\ started > 0
    /\ \A r \in 1..MaxRuns : runs[r] = FinishedRun
    /\ \E i \in 1..Len(boundingBoxes) : boundingBoxes[i].status = "error"
    /\ \E i \in 1..Len(boundingBoxes) : boundingBoxes[i].status = "completed"

----------------------------------------------------------------------------
(* Properties of the regions, checked under Spec *)

\* C21: a completed region carries the identifier of its result layer, a
\* failed region a message, a pending or processing region neither
C21_RegionRecordMatchesStatus ==
    \A i \in 1..Len(boundingBoxes) :
        LET box == boundingBoxes[i]
        IN  /\ box.status = "completed" => IsSome(box.layerId)
            /\ box.status = "error" => box.error # ""
            /\ box.status \in {"pending", "processing"} => ~ IsSome(box.layerId) /\ box.error = ""

\* the regions of the invocation a step starts, <<>> if it starts none
StartedRegions ==
    LET new == {r \in 1..MaxRuns : runs[r].k = 0 /\ runs'[r].k > 0}
    IN  IF new = {} THEN <<>> ELSE runs'[CHOOSE r \in new : TRUE].boxes

\* C22: generation takes the full bounds of the first visible raster as its
\* region only when no drawn region exists; when drawn regions exist it
\* processes drawn regions only
C22_RasterExtentOnlyWithoutDrawnRegions ==
    [][\A modelId \in Models :
          Region_handleGenerateBoundaries(modelId) /\ Len(StartedRegions) > 0 =>
              IF boundingBoxes = <<>>
              THEN /\ Len(StartedRegions) = 1
                   /\ Some(StartedRegions[1].bounds) = Get(topVisibleRaster).rasterBounds
              ELSE \A k \in 1..Len(StartedRegions) :
                       \E i \in 1..Len(boundingBoxes) :
                           /\ boundingBoxes[i].id = StartedRegions[k].id
                           /\ boundingBoxes[i].bounds = StartedRegions[k].bounds]_vars

\* C23: generation started without a drawn region puts the region of the
\* raster's extent into the region list, as processing
C23_AutoRegionStored ==
    [][\A modelId \in Models :
          ( /\ Region_handleGenerateBoundaries(modelId)
            /\ boundingBoxes = <<>>
            /\ Len(StartedRegions) > 0 )
          => \E i \in 1..Len(boundingBoxes') :
                 /\ boundingBoxes'[i].id = StartedRegions[1].id
                 /\ boundingBoxes'[i].status = "processing"]_vars

\* the invocations that wait for the answer on the drawn region of that id
AwaitingRegion(id) ==
    {r \in 1..MaxRuns : runs[r].k > 0 /\ runs[r].boxes[runs[r].k].id = id}

\* C26: no drawn region is under submission by two invocations at once, and
\* none is under submission that already carries a result layer
C26_RegionSubmittedOnce ==
    \A i \in 1..Len(boundingBoxes) :
        /\ Cardinality(AwaitingRegion(boundingBoxes[i].id)) <= 1
        /\ AwaitingRegion(boundingBoxes[i].id) # {} => ~ IsSome(boundingBoxes[i].layerId)

====
